---- MODULE Spec2Model ----
(***************************************************************************)
(* The reconciler of the ETF effective-duration pipeline                   *)
(* (src/mapping_code.py): one run of create_mapping reads the extraction   *)
(* output, opens the persisted table, runs the historical-correction pass  *)
(* and the current-date upsert pass on the in-memory worksheet, and saves. *)
(*                                                                         *)
(* Python values are records [t, s]: t is the type ("none", "str", "num",  *)
(* "datetime") and s the text str() / strftime("%Y-%m-%d") gives.          *)
(* Row positions are the worksheet's: rows 1 and 2 are the headers, data   *)
(* row k of the model (ws.rows[k]) is worksheet row k + 2.  A row position *)
(* of 0 stands for Python's None (find_row_by_date found nothing).         *)
(***************************************************************************)
EXTENDS Integers, Sequences, FiniteSets, TLC

\* Tracked instruments (15 in the deployment; the model keeps the first few).
NumInstr == 2
\* Number of consecutive run dates a run may happen on, from Thu 2025-10-16.
NumDays == 3
\* Number of reconciler runs in a behaviour.
MaxRuns == 2

-----------------------------------------------------------------------------
(* Python values *)

None == [t |-> "none", s |-> ""]
Str(x) == [t |-> "str", s |-> x]
Num(x) == [t |-> "num", s |-> x]
Datetime(x) == [t |-> "datetime", s |-> x]

\* str(value)
PyStr(v) == IF v.t = "none" THEN "None" ELSE v.s

\* float(text): [ok |-> FALSE] is ValueError; n is the number in tenths.
FloatOfText(x) ==
  CASE x = "5.2" -> [ok |-> TRUE, nan |-> FALSE, n |-> 52]
    [] x = "6.0" -> [ok |-> TRUE, nan |-> FALSE, n |-> 60]
    [] x = "0"   -> [ok |-> TRUE, nan |-> FALSE, n |-> 0]
    [] x = "0.0" -> [ok |-> TRUE, nan |-> FALSE, n |-> 0]
    [] x = "nan" -> [ok |-> TRUE, nan |-> TRUE, n |-> 0]
    [] OTHER     -> [ok |-> FALSE, nan |-> FALSE, n |-> 0]

\* text.replace(' yrs', '').strip()
StripYrs(x) ==
  CASE x = "6.0 yrs" -> "6.0"
    [] x = "0.0 yrs" -> "0.0"
    [] OTHER -> x

\* float == float (IEEE: NaN equals nothing, itself included)
FloatEq(f, g) == ~f.nan /\ ~g.nan /\ f.n = g.n

\* bool(value)
Truthy(v) ==
  CASE v.t = "none" -> FALSE
    [] v.t = "str" -> v.s # ""
    [] v.t = "num" -> ~FloatEq(FloatOfText(v.s), FloatOfText("0"))
    [] OTHER -> TRUE

-----------------------------------------------------------------------------
(* Headers and dates *)

NumCols == NumInstr + 1
Cols == 2..NumCols

InstrNames == <<"JPM EM Bonds ETF", "Iboxx High Yield Corp Bond ETF",
                "Iboxx IG Corp Bond ETF", "TIPS Bond ETF">>
InstrCodes == <<"ISHARESIDD.JPMEMBONDSETF.EFFECTDUR.B",
                "ISHARESIDD.IBOXXHIGHYIELDCORPBONDETF.EFFECTDUR.B",
                "ISHARESIDD.IBOXXIGCORPBONDETF.EFFECTDUR.B",
                "ISHARESIDD.TIPSBONDETF.EFFECTDUR.B">>

HEADER_ROW_1 == [c \in 1..NumCols |-> IF c = 1 THEN None ELSE Str(InstrCodes[c - 1])]
HEADER_ROW_2 == [c \in 1..NumCols |-> IF c = 1 THEN None ELSE Str(InstrNames[c - 1])]

\* Run dates are days of October 2025; 2025-10-13 is a Monday.
Todays == 16..(15 + NumDays)
\* datetime.weekday(): Monday = 0 .. Sunday = 6
Weekday(d) == (d - 13) % 7
\* strftime("%Y-%m-%d")
Ymd(d) == "2025-10-" \o ToString(d)

\* Faulty variant of get_last_business_date: Sunday goes back one day only
get_last_business_date_sunday_minus_1(today_) ==
  CASE Weekday(today_) = 0 -> today_ - 3
    [] OTHER -> today_ - 1

\* Faulty variant of get_last_business_date: always the day before
get_last_business_date_yesterday(today_) == today_ - 1

get_last_business_date(today_) ==
  CASE Weekday(today_) = 0 -> today_ - 3
    [] Weekday(today_) = 6 -> today_ - 2
    [] Weekday(today_) = 5 -> today_ - 1
    [] OTHER -> today_ - 1

-----------------------------------------------------------------------------
(* Pure helpers of the reconciler *)

\* float(value) == 0
IsZeroFloat(f) == FloatEq(f, FloatOfText("0"))

validate_duration(value) ==
  IF value.t = "none" THEN FALSE
  ELSE LET f == FloatOfText(StripYrs(PyStr(value)))
       IN IF ~f.ok THEN FALSE
          ELSE IF IsZeroFloat(f) THEN FALSE
          ELSE TRUE

\* ws.cell(row=row, column=1).value and ws.cell(row=row, column=col).value
Cell(sheet, row, col) ==
  IF row = 1 THEN sheet.hdr1[col]
  ELSE IF row = 2 THEN sheet.hdr2[col]
  ELSE IF row - 2 \in 1..Len(sheet.rows)
       THEN IF col = 1 THEN sheet.rows[row - 2].date ELSE sheet.rows[row - 2].cells[col]
  ELSE None
DateCell(sheet, row) == Cell(sheet, row, 1)

\* ws.max_row: the headers and every data row hold a cell
max_row(sheet) == 2 + Len(sheet.rows)

\* Faulty variant of DateMatches: date-typed cells are not looked at
DateMatches_text_only(cell_date, target_date_str) ==
  /\ Truthy(cell_date)
  /\ cell_date.t = "str" /\ cell_date.s = target_date_str

\* Whether the date cell of `row` matches the target text
DateMatches(cell_date, target_date_str) ==
  /\ Truthy(cell_date)
  /\ \/ cell_date.t = "datetime" /\ cell_date.s = target_date_str
     \/ cell_date.t = "str" /\ cell_date.s = target_date_str

\* Faulty variant of find_row_by_date: the scan starts one row too low (range(4, ...))
find_row_by_date_from_row_4(sheet, target_date_str) ==
  LET hits == {r \in 4..max_row(sheet) : DateMatches(DateCell(sheet, r), target_date_str)}
  IN IF hits = {} THEN 0
     ELSE CHOOSE r \in hits : \A q \in hits : r <= q

find_row_by_date(sheet, target_date_str) ==
  LET hits == {r \in 3..max_row(sheet) : DateMatches(DateCell(sheet, r), target_date_str)}
  IN IF hits = {} THEN 0
     ELSE CHOOSE r \in hits : \A q \in hits : r <= q

EmptyDict == [x \in {} |-> None]

\* Faulty variant of get_previous_row_data: the guard for the first data row is
\* missing, so row 3 falls back on header row 2
get_previous_row_data_no_guard(sheet, current_row) ==
  LET previous_row == current_row - 1
      filled == {c \in Cols : Cell(sheet, previous_row, c) # None}
  IN [c \in filled |-> Cell(sheet, previous_row, c)]

\* Faulty variant of get_previous_row_data: the values are read from the
\* first data row, not from the row above
get_previous_row_data_from_first_row(sheet, current_row) ==
  IF current_row <= 3 THEN EmptyDict
  ELSE LET filled == {c \in Cols : Cell(sheet, 3, c) # None}
       IN [c \in filled |-> Cell(sheet, 3, c)]

get_previous_row_data(sheet, current_row) ==
  IF current_row <= 3 THEN EmptyDict
  ELSE LET previous_row == current_row - 1
           filled == {c \in Cols : Cell(sheet, previous_row, c) # None}
       IN [c \in filled |-> Cell(sheet, previous_row, c)]

\* The extraction output file: state is "absent", "unreadable" (load_workbook
\* raises) or "ok"; asof is cell C2; data maps the names of column A to the raw
\* cells of column B.
get_as_of_date_from_source(src) ==
  IF src.state = "absent" THEN None
  ELSE IF src.asof.t = "datetime" THEN Str(src.asof.s)
  ELSE IF src.asof.t = "str" THEN src.asof
  ELSE None

\* The dict read_source_data returns ([none |-> TRUE] is Python's None)
read_source_data(src) ==
  IF src.state = "absent" THEN [none |-> TRUE, data |-> EmptyDict]
  ELSE [none |-> FALSE,
        data |-> [nm \in DOMAIN src.data |->
                    LET d == src.data[nm]
                    IN IF Truthy(d) /\ d.t = "str" THEN Str(StripYrs(d.s)) ELSE d]]

NewSheet == [hdr1 |-> HEADER_ROW_1, hdr2 |-> HEADER_ROW_2, rows |-> <<>>]
NoSheet == [hdr1 |-> [c \in 1..NumCols |-> None], hdr2 |-> [c \in 1..NumCols |-> None],
            rows |-> <<>>]

create_or_open_target_file(file) ==
  IF file.exists THEN file.ws ELSE NewSheet

\* float(v) if v else None, as [none, f]; raises when v is truthy and not a number
OptFloat(v) ==
  IF Truthy(v) THEN [none |-> FALSE, f |-> FloatOfText(v.s)]
  ELSE [none |-> TRUE, f |-> FloatOfText("0")]
FloatRaises(v) == Truthy(v) /\ ~FloatOfText(v.s).ok

\* Faulty variant of CellChanged: an empty side is never reported
CellChanged_ignores_empty(old_value, new_value) ==
  IF FloatRaises(old_value) \/ FloatRaises(new_value)
  THEN PyStr(old_value) # PyStr(new_value)
  ELSE LET o == OptFloat(old_value)
           n == OptFloat(new_value)
       IN IF o.none \/ n.none THEN FALSE
          ELSE ~FloatEq(o.f, n.f)

\* One iteration of compare_and_report_changes: is the column reported [CHANGED]
CellChanged(old_value, new_value) ==
  IF FloatRaises(old_value) \/ FloatRaises(new_value)
  THEN PyStr(old_value) # PyStr(new_value)
  ELSE LET o == OptFloat(old_value)
           n == OptFloat(new_value)
       IN IF o.none \/ n.none THEN o.none # n.none
          ELSE ~FloatEq(o.f, n.f)

compare_and_report_changes(sheet, row_num, column_mapping) ==
  \E c \in DOMAIN column_mapping : CellChanged(Cell(sheet, row_num, c), column_mapping[c])

\* column_mapping maps a column to the duration to write (the entry's
\* as_of_date is never read); count is zero_value_count.
\* Faulty variant of MappedValue: the previous value is used whenever there is one,
\* the reading's validity is not looked at
MappedValue_prefers_previous(source_data, previous_data, col) ==
  LET duration == source_data[HEADER_ROW_2[col].s]
  IN IF col \in DOMAIN previous_data THEN previous_data[col] ELSE duration

MappedValue(source_data, previous_data, col) ==
  LET duration == source_data[HEADER_ROW_2[col].s]
  IN IF ~validate_duration(duration)
     THEN IF col \in DOMAIN previous_data THEN previous_data[col] ELSE duration
     ELSE duration

UsesFallback(source_data, previous_data, col) ==
  /\ HEADER_ROW_2[col].s \in DOMAIN source_data
  /\ ~validate_duration(source_data[HEADER_ROW_2[col].s])
  /\ col \in DOMAIN previous_data

create_column_mapping(source_data, previous_data) ==
  LET mapped == {c \in Cols : HEADER_ROW_2[c].s \in DOMAIN source_data}
  IN [mapping |-> [c \in mapped |-> MappedValue(source_data, previous_data, c)],
      count |-> Cardinality({c \in Cols : UsesFallback(source_data, previous_data, c)})]

\* Faulty variant of write_data_to_row: the row offset is one too small, so a
\* write below row 3 lands on the row above
write_data_to_row_row_above(sheet, row_num, date_str, column_mapping) ==
  LET target == IF row_num > 3 THEN row_num - 1 ELSE row_num
      k == target - 2
      old == IF k \in 1..Len(sheet.rows) THEN sheet.rows[k].cells
             ELSE [c \in Cols |-> None]
      new == [date |-> Str(date_str),
              cells |-> [c \in Cols |-> IF c \in DOMAIN column_mapping
                                        THEN column_mapping[c] ELSE old[c]]]
  IN IF k \in 1..Len(sheet.rows)
     THEN [sheet EXCEPT !.rows[k] = new]
     ELSE [sheet EXCEPT !.rows = Append(sheet.rows, new)]

\* A header row after the date and the mapping are written over it
WrittenHeader(hdr, date_str, column_mapping) ==
  [c \in 1..NumCols |-> IF c = 1 THEN Str(date_str)
                        ELSE IF c \in DOMAIN column_mapping THEN column_mapping[c]
                        ELSE hdr[c]]

write_data_to_row(sheet, row_num, date_str, column_mapping) ==
  LET k == row_num - 2
      old == IF k \in 1..Len(sheet.rows) THEN sheet.rows[k].cells
             ELSE [c \in Cols |-> None]
      new == [date |-> Str(date_str),
              cells |-> [c \in Cols |-> IF c \in DOMAIN column_mapping
                                        THEN column_mapping[c] ELSE old[c]]]
  IN IF row_num = 1
     THEN [sheet EXCEPT !.hdr1 = WrittenHeader(sheet.hdr1, date_str, column_mapping)]
     ELSE IF row_num = 2
     THEN [sheet EXCEPT !.hdr2 = WrittenHeader(sheet.hdr2, date_str, column_mapping)]
     ELSE IF k \in 1..Len(sheet.rows)
     THEN [sheet EXCEPT !.rows[k] = new]
     ELSE [sheet EXCEPT !.rows = Append(sheet.rows, new)]

\* Faulty variant of NextEmptyRow: the search starts at row 1
NextEmptyRow_from_row_1(sheet) ==
  CHOOSE r \in 1..(max_row(sheet) + 1) :
    /\ DateCell(sheet, r) = None
    /\ \A q \in 1..(r - 1) : DateCell(sheet, q) # None

\* "Find next empty row": the first row from 3 whose date cell is None
NextEmptyRow(sheet) ==
  CHOOSE r \in 3..(max_row(sheet) + 1) :
    /\ DateCell(sheet, r) = None
    /\ \A q \in 3..(r - 1) : DateCell(sheet, q) # None

-----------------------------------------------------------------------------
(* The two passes of create_mapping, as functions of the worksheet *)

\* Faulty variant of HistoricalPass: with no row for the as-of date, the mapping is
\* written to the next empty row
HistoricalPass_creates_row(sheet, source_data, as_of_date_str) ==
  LET found == find_row_by_date(sheet, as_of_date_str)
      historical_row == IF found # 0 THEN found ELSE NextEmptyRow(sheet)
      hist_previous_data == get_previous_row_data(sheet, historical_row)
      m == create_column_mapping(source_data, hist_previous_data)
      hist_changes == compare_and_report_changes(sheet, historical_row, m.mapping)
  IN [row |-> found, mapping |-> m.mapping, count |-> m.count,
      changes |-> hist_changes,
      ws |-> IF hist_changes \/ found = 0
             THEN write_data_to_row(sheet, historical_row, as_of_date_str, m.mapping)
             ELSE sheet]

\* STEP 1: the historical-correction pass on `sheet`
HistoricalPass(sheet, source_data, as_of_date_str) ==
  LET historical_row == find_row_by_date(sheet, as_of_date_str)
  IN IF historical_row # 0
     THEN LET hist_previous_data == get_previous_row_data(sheet, historical_row)
              m == create_column_mapping(source_data, hist_previous_data)
              hist_changes == compare_and_report_changes(sheet, historical_row, m.mapping)
          IN [row |-> historical_row, mapping |-> m.mapping, count |-> m.count,
              changes |-> hist_changes,
              ws |-> IF hist_changes
                     THEN write_data_to_row(sheet, historical_row, as_of_date_str, m.mapping)
                     ELSE sheet]
     ELSE [row |-> 0, mapping |-> EmptyDict, count |-> 0, changes |-> FALSE, ws |-> sheet]

\* Faulty variant of CurrentDatePass: an existing row is written only when
\* the change detector reports a difference
CurrentDatePass_writes_if_changed(sheet, source_data, target_date_str) ==
  LET existing_row == find_row_by_date(sheet, target_date_str)
      is_update == existing_row # 0
      target_row == IF is_update THEN existing_row ELSE NextEmptyRow(sheet)
      previous_data == get_previous_row_data(sheet, target_row)
      m == create_column_mapping(source_data, previous_data)
      changes_detected == is_update /\ compare_and_report_changes(sheet, target_row, m.mapping)
  IN [row |-> target_row, is_update |-> is_update, mapping |-> m.mapping,
      count |-> m.count, changes |-> changes_detected,
      ws |-> IF is_update /\ ~changes_detected THEN sheet
             ELSE write_data_to_row(sheet, target_row, target_date_str, m.mapping)]

\* STEP 2: the current-date upsert pass on `sheet`
CurrentDatePass(sheet, source_data, target_date_str) ==
  LET existing_row == find_row_by_date(sheet, target_date_str)
      is_update == existing_row # 0
      target_row == IF is_update THEN existing_row ELSE NextEmptyRow(sheet)
      previous_data == get_previous_row_data(sheet, target_row)
      m == create_column_mapping(source_data, previous_data)
      changes_detected == is_update /\ compare_and_report_changes(sheet, target_row, m.mapping)
  IN [row |-> target_row, is_update |-> is_update, mapping |-> m.mapping,
      count |-> m.count, changes |-> changes_detected,
      ws |-> write_data_to_row(sheet, target_row, target_date_str, m.mapping)]

-----------------------------------------------------------------------------
(* Inputs *)

Names == {HEADER_ROW_2[c].s : c \in Cols}

\* Raw cells of the extraction output's duration column
RawDurations == {Str("5.2"), Str("6.0 yrs"), Str("0"), Str("N/A"), Str("nan"), None}

\* A batch holds a reading for some of the tracked instruments
Batches == UNION {[S -> RawDurations] : S \in SUBSET Names}

\* Cell C2 of the extraction output: a date text, "N/A", empty, or a number
AsOfCells == {Str(Ymd(get_last_business_date(d))) : d \in Todays}
             \cup {Str("N/A"), None, Num("45945")}

AbsentSource == [state |-> "absent", asof |-> None, data |-> EmptyDict]
UnreadableSource == [state |-> "unreadable", asof |-> None, data |-> EmptyDict]
Sources == {AbsentSource, UnreadableSource}
           \cup {[state |-> "ok", asof |-> a, data |-> b] : a \in AsOfCells, b \in Batches}

\* The persisted table before the first run: no file yet, or a file kept by
\* hand with one row whose date cell is date-typed and whose cells are numbers.
AbsentTable == [exists |-> FALSE, ws |-> NoSheet]
SeedTable ==
  [exists |-> TRUE,
   ws |-> [NewSheet EXCEPT !.rows =
             << [date |-> Datetime(Ymd(15)), cells |-> [c \in Cols |-> Num("6.0")]] >>]]

NoHist == [row |-> 0, mapping |-> EmptyDict, count |-> 0, changes |-> FALSE]
NoCur == [row |-> 0, is_update |-> FALSE, mapping |-> EmptyDict, count |-> 0,
          changes |-> FALSE]

-----------------------------------------------------------------------------
(* The run of create_mapping *)

VARIABLES
  table,    \* ISHARESIDD_DATA_.xlsx on disk: [exists, ws]
  table_before, \* the file on disk when the run started
  pc,       \* "idle", "hist", "cur", "save", "done"
  runs,     \* runs finished
  today,    \* datetime.now() of the run
  source,   \* ETF_Effective_Duration.xlsx as the run finds it
  ws,       \* target_ws, the worksheet in memory
  ws_pre,   \* the worksheet as it was when the last pass started
  opened,   \* create_or_open_target_file was called in this run
  hist,     \* historical_row, hist_column_mapping, hist_zero_count, hist_changes
  cur,      \* target_row, is_update, column_mapping, zero_value_count, changes_detected
  outcome,  \* "none", "aborted" (early return), "raised", "saved"
  saves,    \* calls of target_wb.save in this run
  orch,     \* orchestrator.py: "idle", "step1", "step2", "mapping", "step2done", "exited"
  ext,      \* the main.py process: [st, rc, i, all_data]
  source_file, \* ETF_Effective_Duration.xlsx on disk
  fresh,    \* the extractor of this orchestrator run wrote source_file
  exit_status, \* the status the orchestrator exited with
  pruns,    \* orchestrator runs finished
  mapping_outcome \* how the mapping_code.py run of this orchestrator run ended

\* The variables of a run of create_mapping
rvars == <<table, table_before, pc, runs, today, source, ws, ws_pre, opened, hist, cur, outcome, saves>>

\* The variables of the orchestrator and the extractor
pvars == <<orch, ext, source_file, fresh, exit_status, pruns, mapping_outcome>>

vars == <<table, table_before, pc, runs, today, source, ws, ws_pre, opened, hist, cur, outcome, saves,
          orch, ext, source_file, fresh, exit_status, pruns, mapping_outcome>>

target_date_str == Ymd(get_last_business_date(today))
as_of_date_str == get_as_of_date_from_source(source)
source_data == read_source_data(source).data

\* Faulty variant of SourceUsable: only the exception stops the run, the early
\* returns are missing
SourceUsable_no_early_return(src) == src.state # "unreadable"

\* Lines 309-322: the run goes on to open the target file
SourceUsable(src) ==
  /\ src.state # "unreadable"
  /\ Truthy(get_as_of_date_from_source(src))
  /\ ~read_source_data(src).none
  /\ DOMAIN read_source_data(src).data # {}

\* No main.py process
NoExtractor == [st |-> "off", rc |-> 0, i |-> 0, all_data |-> <<>>]

\* No orchestrator is running and no extraction output is on disk
NoPipeline ==
  /\ orch = "idle"
  /\ ext = NoExtractor
  /\ source_file = AbsentSource
  /\ fresh = FALSE
  /\ exit_status = 0
  /\ pruns = 0
  /\ mapping_outcome = "none"

Init ==
  /\ NoPipeline
  /\ table \in {AbsentTable, SeedTable}
  /\ table_before = table
  /\ pc = "idle"
  /\ runs = 0
  /\ today = 0
  /\ source = AbsentSource
  /\ ws = NoSheet
  /\ ws_pre = NoSheet
  /\ opened = FALSE
  /\ hist = NoHist
  /\ cur = NoCur
  /\ outcome = "none"
  /\ saves = 0

\* create_mapping up to STEP 1, run on a day of `days` with the extraction
\* output being one of `files`
StartRun(days, files) ==
  /\ pc = "idle"
  /\ \E t \in days, src \in files :
       /\ today' = t
       /\ source' = src
       /\ IF SourceUsable(src)
          THEN /\ ws' = create_or_open_target_file(table)
               /\ opened' = TRUE
               /\ pc' = "hist"
               /\ outcome' = "none"
          ELSE /\ pc' = "done"
               /\ outcome' = IF src.state = "unreadable" THEN "raised" ELSE "aborted"
               /\ UNCHANGED <<ws, opened>>
  /\ table_before' = table
  /\ UNCHANGED <<table, runs, ws_pre, hist, cur, saves>>

\* mapping_code.py run by hand, on any day and any extraction output
Start ==
  /\ runs < MaxRuns
  /\ StartRun(Todays, Sources)
  /\ UNCHANGED pvars

\* Faulty variant of Historical: the workbook is saved right after the pass
Historical_saves_early ==
  /\ pc = "hist"
  /\ LET r == HistoricalPass(ws, source_data, as_of_date_str.s)
     IN /\ hist' = [row |-> r.row, mapping |-> r.mapping, count |-> r.count,
                    changes |-> r.changes]
        /\ ws' = r.ws
        /\ table' = [exists |-> TRUE, ws |-> r.ws]
  /\ ws_pre' = ws
  /\ saves' = saves + 1
  /\ pc' = "cur"
  /\ UNCHANGED <<table_before, runs, today, source, opened, cur, outcome>>
  /\ UNCHANGED pvars

Historical ==
  /\ pc = "hist"
  /\ LET r == HistoricalPass(ws, source_data, as_of_date_str.s)
     IN /\ hist' = [row |-> r.row, mapping |-> r.mapping, count |-> r.count,
                    changes |-> r.changes]
        /\ ws' = r.ws
  /\ ws_pre' = ws
  /\ pc' = "cur"
  /\ UNCHANGED <<table, table_before, runs, today, source, opened, cur, outcome, saves>>
  /\ UNCHANGED pvars

CurrentDate ==
  /\ pc = "cur"
  /\ LET r == CurrentDatePass(ws, source_data, target_date_str)
     IN /\ cur' = [row |-> r.row, is_update |-> r.is_update, mapping |-> r.mapping,
                   count |-> r.count, changes |-> r.changes]
        /\ ws' = r.ws
  /\ ws_pre' = ws
  /\ pc' = "save"
  /\ UNCHANGED <<table, table_before, runs, today, source, opened, hist, outcome, saves>>
  /\ UNCHANGED pvars

Save ==
  /\ pc = "save"
  /\ table' = [exists |-> TRUE, ws |-> ws]
  /\ saves' = saves + 1
  /\ outcome' = "saved"
  /\ pc' = "done"
  /\ UNCHANGED <<table_before, runs, today, source, ws, ws_pre, opened, hist, cur>>
  /\ UNCHANGED pvars

\* The process ends: nothing of the run but the file on disk remains
ExitRun ==
  /\ pc = "done"
  /\ pc' = "idle"
  /\ runs' = runs + 1
  /\ today' = 0
  /\ source' = AbsentSource
  /\ ws' = NoSheet
  /\ ws_pre' = NoSheet
  /\ opened' = FALSE
  /\ hist' = NoHist
  /\ cur' = NoCur
  /\ outcome' = "none"
  /\ saves' = 0
  /\ table_before' = table
  /\ UNCHANGED table

Exit ==
  /\ ExitRun
  /\ UNCHANGED pvars

Next == Start \/ Historical \/ CurrentDate \/ Save \/ Exit

Spec == Init /\ [][Next]_vars

-----------------------------------------------------------------------------
(* The pipeline: orchestrator.py runs main.py, then mapping_code.py *)

MaxPipelines == 2

\* The days the orchestrator runs on: Monday 2025-10-13 to Sunday 2025-10-19
PipelineDays == 13..19

\* What extract_duration_and_date finds on a page
ExtractedDurations == {Str("5.2"), Str("N/A")}
ExtractedDates == {Str(Ymd(15)), Str("N/A")}

\* extract_effective_duration: None when the page raised, else the result dict
ExtractOutcomes ==
  {[raised |-> TRUE, duration |-> None, date |-> None]}
  \cup {[raised |-> FALSE, duration |-> d, date |-> a] :
          d \in ExtractedDurations, a \in ExtractedDates}

\* pd.DataFrame(all_data).to_excel: one row per result, as mapping_code reads it
to_excel(all_data) ==
  [state |-> "ok",
   asof |-> all_data[1].date,
   data |-> [nm \in {all_data[k].name : k \in 1..Len(all_data)} |->
               all_data[CHOOSE k \in 1..Len(all_data) : all_data[k].name = nm].duration]]

\* Faulty variant of run_script: the exit code of the script is not checked
run_script_ignores_exit_code(proc) == TRUE

\* run_script: subprocess.run(check=True) raises on a non-zero exit code
run_script(proc) == proc.rc = 0

\* The mapping_code.py process when it ends: its __main__ catches every
\* exception, so the exit code is 0
MappingProcess == [st |-> "finished", rc |-> 0, i |-> 0, all_data |-> <<>>]

\* main(): the scripts are looked for, then main.py is launched
OrchStart ==
  /\ orch = "idle"
  /\ pruns < MaxPipelines
  /\ \E scripts_exist \in BOOLEAN :
       IF scripts_exist
       THEN /\ orch' = "step1"
            /\ ext' = [NoExtractor EXCEPT !.st = "setup"]
            /\ UNCHANGED exit_status
       ELSE /\ orch' = "exited"
            /\ exit_status' = 1
            /\ UNCHANGED ext
  /\ fresh' = FALSE
  /\ UNCHANGED <<source_file, pruns, mapping_outcome>>
  /\ UNCHANGED rvars

\* main.py: setup_driver; when it raises, main returns
ExtractorSetup ==
  /\ ext.st = "setup"
  /\ \E driver_ok \in BOOLEAN :
       ext' = IF driver_ok THEN [ext EXCEPT !.st = "loop", !.i = 1]
              ELSE [ext EXCEPT !.st = "finished"]
  /\ UNCHANGED <<orch, source_file, fresh, exit_status, pruns, mapping_outcome>>
  /\ UNCHANGED rvars

\* main.py: one turn of the loop over etf_data
ExtractInstrument ==
  /\ ext.st = "loop"
  /\ ext.i <= NumInstr
  /\ \E r \in ExtractOutcomes :
       ext' = [ext EXCEPT
                 !.i = @ + 1,
                 !.all_data = IF r.raised THEN @
                              ELSE Append(@, [name |-> InstrNames[ext.i],
                                              duration |-> r.duration,
                                              date |-> r.date])]
  /\ UNCHANGED <<orch, source_file, fresh, exit_status, pruns, mapping_outcome>>
  /\ UNCHANGED rvars

\* main.py after the loop: the file is written when there is a result; a
\* to_excel that raises ends the process with exit code 1
ExtractorSave ==
  /\ ext.st = "loop"
  /\ ext.i > NumInstr
  /\ IF ext.all_data # <<>>
     THEN \E written \in BOOLEAN :
            IF written
            THEN /\ source_file' = to_excel(ext.all_data)
                 /\ fresh' = TRUE
                 /\ ext' = [NoExtractor EXCEPT !.st = "finished"]
            ELSE /\ ext' = [NoExtractor EXCEPT !.st = "finished", !.rc = 1]
                 /\ UNCHANGED <<source_file, fresh>>
     ELSE /\ ext' = [NoExtractor EXCEPT !.st = "finished"]
          /\ UNCHANGED <<source_file, fresh>>
  /\ UNCHANGED <<orch, exit_status, pruns, mapping_outcome>>
  /\ UNCHANGED rvars

\* main(): run_script("main.py") returns once the process has ended; on
\* failure sys.exit(1), else (the output file is only looked for)
\* mapping_code.py is launched
OrchAfterStep1 ==
  /\ orch = "step1"
  /\ ext.st = "finished"
  /\ IF run_script(ext)
     THEN /\ orch' = "step2"
          /\ UNCHANGED exit_status
     ELSE /\ orch' = "exited"
          /\ exit_status' = 1
  /\ UNCHANGED <<ext, source_file, fresh, pruns, mapping_outcome>>
  /\ UNCHANGED rvars

\* mapping_code.py started by the orchestrator: it reads the extraction
\* output that is on disk
MappingStart ==
  /\ orch = "step2"
  /\ StartRun(PipelineDays, {source_file})
  /\ orch' = "mapping"
  /\ UNCHANGED <<ext, source_file, fresh, exit_status, pruns, mapping_outcome>>

\* The mapping_code.py process ends
MappingExit ==
  /\ orch = "mapping"
  /\ ExitRun
  /\ orch' = "step2done"
  /\ mapping_outcome' = outcome
  /\ UNCHANGED <<ext, source_file, fresh, exit_status, pruns>>

\* main(): run_script("mapping_code.py") returned
OrchAfterStep2 ==
  /\ orch = "step2done"
  /\ orch' = "exited"
  /\ exit_status' = IF run_script(MappingProcess) THEN 0 ELSE 1
  /\ UNCHANGED <<ext, source_file, fresh, pruns, mapping_outcome>>
  /\ UNCHANGED rvars

\* The orchestrator process ends
OrchExit ==
  /\ orch = "exited"
  /\ orch' = "idle"
  /\ ext' = NoExtractor
  /\ fresh' = FALSE
  /\ exit_status' = 0
  /\ pruns' = pruns + 1
  /\ mapping_outcome' = "none"
  /\ UNCHANGED source_file
  /\ UNCHANGED rvars

PipelineNext ==
  \/ OrchStart
  \/ ExtractorSetup
  \/ ExtractInstrument
  \/ ExtractorSave
  \/ OrchAfterStep1
  \/ MappingStart
  \/ Historical
  \/ CurrentDate
  \/ Save
  \/ MappingExit
  \/ OrchAfterStep2
  \/ OrchExit

Pipeline == Init /\ [][PipelineNext]_vars

-----------------------------------------------------------------------------
(* A week of runs: mapping_code.py run by hand on the days from Monday
   2025-10-13 to Monday 2025-10-20, on complete batches *)

MaxWeekRuns == 3

WeekDays == 13..20

\* Batches with a reading, valid or zero, for every tracked instrument
WeekBatches == [Names -> {Str("5.2"), Str("0")}]

WeekSources ==
  {[state |-> "ok", asof |-> a, data |-> b] :
     a \in {Str(Ymd(17)), Str("N/A")}, b \in WeekBatches}

WeekStart ==
  /\ runs < MaxWeekRuns
  /\ StartRun(WeekDays, WeekSources)
  /\ UNCHANGED pvars

WeekNext == WeekStart \/ Historical \/ CurrentDate \/ Save \/ Exit

Week == Init /\ [][WeekNext]_vars

-----------------------------------------------------------------------------
(* Claims *)

DataRows(sheet) == 1..Len(sheet.rows)
\* The reading of the run's batch for the instrument of column c
HasReading(c) == HEADER_ROW_2[c].s \in DOMAIN source_data
Reading(c) == source_data[HEADER_ROW_2[c].s]
\* A non-zero finite number
IsNonZeroNumber(v) ==
  /\ v.t \in {"str", "num"}
  /\ FloatOfText(v.s).ok
  /\ ~FloatOfText(v.s).nan
  /\ FloatOfText(v.s).n # 0
UniqueDates(sheet) ==
  \A i, j \in DataRows(sheet) :
    (i # j /\ sheet.rows[i].date # None) => sheet.rows[i].date.s # sheet.rows[j].date.s

\* C1: after any sequence of runs, no two data rows of the table (on disk or in
\* memory) carry the same date in column 1.
C1_OneRowPerDate == UniqueDates(table.ws) /\ UniqueDates(ws)

\* C1 witness: a run that found its business date's row in a table of two or
\* more rows has saved.
C1_Witness ==
  /\ pc = "done" /\ outcome = "saved"
  /\ cur.is_update
  /\ Len(table.ws.rows) >= 2

\* C2 (as claimed): every instrument cell of every data row of the persisted
\* table is empty or holds a non-zero number.
C2_CellsEmptyOrNonZeroNumber ==
  \A i \in DataRows(table.ws) : \A c \in Cols :
    \/ table.ws.rows[i].cells[c] = None
    \/ IsNonZeroNumber(table.ws.rows[i].cells[c])

\* C3: a run that finds the extraction output absent or unreadable ends without
\* opening or saving the table, and the file on disk is what it was.
C3_SourceUnavailableAborts ==
  (pc = "done" /\ source.state \in {"absent", "unreadable"}) =>
    /\ table = table_before
    /\ ~opened
    /\ saves = 0
    /\ outcome \in {"aborted", "raised"}

\* C3 witness: a run aborted on an unreadable extraction output with a
\* non-empty table on disk.
C3_Witness ==
  /\ pc = "done"
  /\ source.state = "unreadable"
  /\ table.exists /\ Len(table.ws.rows) >= 1

\* An invalid reading for column c with no value in the row before `row`
InvalidNoPrevious(sheet, row, c) ==
  /\ HasReading(c)
  /\ ~validate_duration(Reading(c))
  /\ c \notin DOMAIN get_previous_row_data(sheet, row)

\* C4 (as claimed): the mapping of either pass has no entry for an instrument
\* whose reading is invalid and whose previous row holds no value.
C4_NoEntryWithoutFallback ==
  /\ (pc = "cur" /\ hist.row # 0) =>
       \A c \in Cols : InvalidNoPrevious(ws, hist.row, c) => c \notin DOMAIN hist.mapping
  /\ pc = "save" =>
       \A c \in Cols : InvalidNoPrevious(ws, cur.row, c) => c \notin DOMAIN cur.mapping

\* Columns whose reading is invalid while the data row just above `row` holds a value
FallbackCols(sheet, row) ==
  {c \in Cols : /\ HasReading(c)
                /\ ~validate_duration(Reading(c))
                /\ row > 3
                /\ Cell(sheet, row - 1, c) # None}
FallbackFromPrecedingRow(sheet, row, mapping, count) ==
  /\ \A c \in FallbackCols(sheet, row) :
       c \in DOMAIN mapping /\ mapping[c] = Cell(sheet, row - 1, c)
  /\ count = Cardinality(FallbackCols(sheet, row))
  /\ row = 3 =>
       /\ count = 0
       /\ \A c \in DOMAIN mapping : mapping[c] \notin {sheet.hdr1[c], sheet.hdr2[c]}

\* C5: in either pass, an invalid reading whose preceding data row holds a
\* value is mapped to exactly that value, the fallback count is the number of
\* such instruments, and for row 3 nothing falls back (never on a header).
C5_FallbackIsPrecedingRowValue ==
  /\ (pc = "cur" /\ hist.row # 0) =>
       FallbackFromPrecedingRow(ws, hist.row, hist.mapping, hist.count)
  /\ pc = "save" => FallbackFromPrecedingRow(ws, cur.row, cur.mapping, cur.count)

\* C5 witness: the upsert pass targeted a row below row 3 and fell back on the
\* row above it.
C5_Witness ==
  /\ pc = "save"
  /\ cur.row > 3
  /\ cur.count >= 1
  /\ FallbackCols(ws, cur.row) # {}

ValidReadingsKept(mapping) ==
  /\ DOMAIN mapping = {c \in Cols : HasReading(c)}
  /\ \A c \in Cols : (HasReading(c) /\ validate_duration(Reading(c))) => mapping[c] = Reading(c)

\* C6: in either pass every instrument of the batch gets an entry, and a valid
\* reading is mapped to itself, whatever the previous row and the other
\* readings are.
C6_ValidReadingMappedToItself ==
  /\ (pc = "cur" /\ hist.row # 0) => ValidReadingsKept(hist.mapping)
  /\ pc = "save" => ValidReadingsKept(cur.mapping)

\* C6 witness: a valid reading next to an invalid one, with a different value
\* for the valid one in the row above the target row.
C6_Witness ==
  /\ pc = "save"
  /\ cur.row > 3
  /\ \E c, d \in Cols :
       /\ HasReading(c) /\ validate_duration(Reading(c))
       /\ Cell(ws, cur.row - 1, c) \notin {None, Reading(c)}
       /\ HasReading(d) /\ ~validate_duration(Reading(d))

\* C7 (as claimed): with the as-of row the table's only row and valid, no
\* business-date row, a valid changed reading for a and a zero reading for b,
\* the run leaves a = reading in the as-of row and appends the business-date
\* row with a = reading and b = the as-of row's value of b before the run.
C7_EndToEndScenario ==
  (/\ pc = "done" /\ outcome = "saved"
   /\ table_before.exists
   /\ Len(table_before.ws.rows) = 1
   /\ DateMatches(table_before.ws.rows[1].date, as_of_date_str.s)
   /\ \A c \in Cols : IsNonZeroNumber(table_before.ws.rows[1].cells[c])
   /\ target_date_str # as_of_date_str.s)
  => \A a, b \in Cols :
       (/\ a # b
        /\ HasReading(a) /\ IsNonZeroNumber(Reading(a))
        /\ CellChanged(table_before.ws.rows[1].cells[a], Reading(a))
        /\ HasReading(b) /\ Reading(b) = Str("0"))
       => /\ Len(table.ws.rows) = 2
          /\ table.ws.rows[1].cells[a] = Reading(a)
          /\ DateMatches(table.ws.rows[2].date, target_date_str)
          /\ table.ws.rows[2].cells[a] = Reading(a)
          /\ table.ws.rows[2].cells[b] = table_before.ws.rows[1].cells[b]

\* C8 (as claimed): the upsert pass run again on its own result, with the same
\* batch and business date, detects no change, adds no row and leaves the
\* table as it is.
C8_UpsertIdempotent ==
  pc = "save" =>
    LET second == CurrentDatePass(ws, source_data, target_date_str)
    IN /\ ~second.changes
       /\ Len(second.ws.rows) = Len(ws.rows)
       /\ second.ws = ws

\* C9: the historical-correction pass leaves the dated rows as they were
\* loaded, and writes nothing at all when no row carries the as-of date.
C9_HistoricalPassCreatesNoRow ==
  pc = "cur" =>
    LET before == create_or_open_target_file(table)
    IN /\ Len(ws.rows) = Len(before.rows)
       /\ \A i \in DataRows(ws) : ws.rows[i].date.s = before.rows[i].date.s
       /\ hist.row = 0 => ws = before

\* C9 witness: the pass ran on a table with rows, none of them for the batch's
\* as-of date (a real date).
C9_Witness ==
  /\ pc = "cur"
  /\ hist.row = 0
  /\ Len(ws.rows) >= 1
  /\ as_of_date_str.s # "N/A"

IsDateValue(v) == v.t \in {"str", "datetime"} /\ \E d \in 10..31 : v.s = Ymd(d)

\* C10 (as claimed): with a readable, non-empty extraction output whose as-of
\* date is no date, the run skips the historical pass, runs the upsert pass
\* and saves the table.
C10_UnparseableAsOfStillUpserts ==
  (/\ pc = "done"
   /\ source.state = "ok"
   /\ DOMAIN source.data # {}
   /\ ~IsDateValue(source.asof))
  => /\ outcome = "saved"
     /\ saves = 1
     /\ hist.row = 0
     /\ cur.row >= 3

\* The claim's validity: the text without " yrs" parses as a finite non-zero number
ParsesAsNonZeroFinite(v) ==
  /\ v.t # "none"
  /\ LET f == FloatOfText(StripYrs(PyStr(v)))
     IN f.ok /\ ~f.nan /\ f.n # 0

\* C12 (as claimed): a reading of the batch is reported valid exactly when it
\* parses, without its " yrs" unit, as a finite number that is not zero.
C12_ValidIffFiniteNonZero ==
  (pc # "idle" /\ source.state = "ok") =>
    \A nm \in DOMAIN source.data :
      validate_duration(source.data[nm]) <=> ParsesAsNonZeroFinite(source.data[nm])

\* C13: the header rows on disk and in memory are the ones written at
\* creation, and both passes target a row at position 3 or below.
C13_HeadersNeverChange ==
  /\ table.exists => (table.ws.hdr1 = HEADER_ROW_1 /\ table.ws.hdr2 = HEADER_ROW_2)
  /\ opened => (ws.hdr1 = HEADER_ROW_1 /\ ws.hdr2 = HEADER_ROW_2)
  /\ hist.row # 0 => hist.row >= 3
  /\ pc \in {"save", "done"} /\ opened => cur.row >= 3

\* C13 witness: a run created the table, and a later run corrected a
\* historical row and saved.
C13_Witness ==
  /\ pc = "done" /\ outcome = "saved"
  /\ runs >= 1
  /\ hist.changes
  /\ table.exists

\* C14: nothing is saved while the passes run; a run that opened the table
\* ends with exactly one save, of the worksheet both passes produced in
\* order; a run that aborted saved nothing.
C14_SavedOnceAfterBothPasses ==
  /\ pc \in {"hist", "cur", "save"} => (saves = 0 /\ table = table_before)
  /\ pc = "done" =>
       /\ opened <=> outcome = "saved"
       /\ saves = IF outcome = "saved" THEN 1 ELSE 0
       /\ outcome # "saved" => table = table_before
       /\ outcome = "saved" =>
            /\ ws_pre = HistoricalPass(create_or_open_target_file(table_before),
                                       source_data, as_of_date_str.s).ws
            /\ table.ws = CurrentDatePass(ws_pre, source_data, target_date_str).ws

\* C14 witness: a run whose historical pass corrected a row has saved.
C14_Witness ==
  /\ pc = "done" /\ outcome = "saved"
  /\ hist.changes
  /\ saves = 1

\* C18: a run that saved kept every data row and its date, added at most one
\* row, and left the rows of other dates than the as-of and business date as
\* they were.
C18_TableGrowsMonotonically ==
  (pc = "done" /\ outcome = "saved") =>
    LET before == create_or_open_target_file(table_before)
    IN /\ Len(table.ws.rows) \in {Len(before.rows), Len(before.rows) + 1}
       /\ \A i \in DataRows(before) :
            /\ table.ws.rows[i].date # None
            /\ table.ws.rows[i].date.s = before.rows[i].date.s
            /\ before.rows[i].date.s \notin {as_of_date_str.s, target_date_str}
                 => table.ws.rows[i] = before.rows[i]

\* C18 witness: a run appended a row below a row of another date than its
\* as-of and business dates.
C18_Witness ==
  /\ pc = "done" /\ outcome = "saved"
  /\ LET before == create_or_open_target_file(table_before)
     IN /\ Len(table.ws.rows) = Len(before.rows) + 1
        /\ \E i \in DataRows(before) :
             before.rows[i].date.s \notin {as_of_date_str.s, target_date_str}

\* The row `row` of the sheet holds the date text and the mapping
RowHolds(sheet, row, date_str, mapping) ==
  /\ DateCell(sheet, row) = Str(date_str)
  /\ \A c \in DOMAIN mapping : Cell(sheet, row, c) = mapping[c]

Located(sheet, target, result) ==
  /\ result = 0 <=>
       ~\E i \in DataRows(sheet) :
          sheet.rows[i].date.t \in {"str", "datetime"} /\ sheet.rows[i].date.s = target
  /\ result # 0 =>
       /\ result \in 3..(Len(sheet.rows) + 2)
       /\ sheet.rows[result - 2].date.t \in {"str", "datetime"}
       /\ sheet.rows[result - 2].date.s = target

\* C20: both lookups of a run return a data row (position 3 or below) whose
\* date cell, text or date-typed, is the target date, and return not-found
\* exactly when no data row has that date.
C20_RowLocator ==
  /\ (pc = "cur" /\ IsDateValue(as_of_date_str)) => Located(ws_pre, as_of_date_str.s, hist.row)
  /\ pc = "save" => Located(ws_pre, target_date_str, IF cur.is_update THEN cur.row ELSE 0)

\* C20 witness: the business date's row was found at row 4, a text cell,
\* below a date-typed row 3.
C20_Witness ==
  /\ pc = "save"
  /\ cur.is_update /\ cur.row = 4
  /\ DateCell(ws_pre, 3).t = "datetime"
  /\ DateCell(ws_pre, 4).t = "str"

\* The days the claim goes back from a run date
DaysBack(d) ==
  CASE Weekday(d) = 0 -> 3
    [] Weekday(d) = 5 -> 1
    [] Weekday(d) = 6 -> 2
    [] Weekday(d) \in 1..4 -> 1

\* C11: on every day of the week, the row the upsert pass wrote carries the
\* run date minus 3 days on Monday, minus 2 on Sunday, minus 1 on Saturday and
\* on Tuesday to Friday.
C11_LastBusinessDate ==
  pc = "save" =>
    /\ target_date_str = Ymd(today - DaysBack(today))
    /\ DateCell(ws, cur.row) = Str(Ymd(today - DaysBack(today)))

\* C11 witness: a run on Monday wrote the row of the Friday before.
C11_Witness ==
  /\ pc = "save"
  /\ Weekday(today) = 0
  /\ DateCell(ws, cur.row) = Str(Ymd(today - 3))

\* C15: the reconciler runs only under an orchestrator whose extractor
\* process has ended with exit code 0; after a failed extractor the reconciler
\* stays unstarted, the table is the one of before, and the orchestrator's exit
\* status is not 0.
C15_PipelineOrdering ==
  /\ pc # "idle" => (orch = "mapping" /\ ext.st = "finished" /\ ext.rc = 0)
  /\ orch \in {"step2", "mapping", "step2done"} => (ext.st = "finished" /\ ext.rc = 0)
  /\ ext.rc # 0 => (pc = "idle" /\ table = table_before)
  /\ (orch = "exited" /\ ext.rc # 0) => exit_status # 0

\* C15 witness: the extractor failed in a run after one that saved the table,
\* and the orchestrator has exited.
C15_Witness ==
  /\ orch = "exited"
  /\ ext.st = "finished" /\ ext.rc # 0
  /\ exit_status = 1
  /\ table.exists /\ runs >= 1

\* C16 (as claimed): the batch the reconciler reads under the orchestrator
\* has a reading for every tracked instrument.
C16_BatchHasEveryInstrument ==
  (orch = "mapping" /\ pc # "idle" /\ source.state = "ok") =>
    DOMAIN source.data = Names

\* C17 (as claimed): the batch the reconciler reads under the orchestrator
\* was written by the extractor of the same orchestrator run.
C17_BatchFromSameRun ==
  (orch = "mapping" /\ pc # "idle" /\ source.state = "ok") => fresh

\* The value is a number or a text that parses as one
ParsesAsNumber(v) == v.t \in {"str", "num"} /\ FloatOfText(v.s).ok

\* The claim's difference: as numbers when both sides parse as numbers, as
\* exact strings otherwise
Differ(old_value, new_value) ==
  IF ParsesAsNumber(old_value) /\ ParsesAsNumber(new_value)
  THEN ~FloatEq(FloatOfText(old_value.s), FloatOfText(new_value.s))
  ELSE PyStr(old_value) # PyStr(new_value)

C22_HistoricalPassKeepsValidValues ==
  (pc = "cur" /\ hist.row # 0) =>
    \A c \in Cols :
      IsNonZeroNumber(Cell(ws_pre, hist.row, c)) => IsNonZeroNumber(Cell(ws, hist.row, c))

\* The Friday among the three days before d, for d a Saturday, Sunday or Monday
FridayBefore(d) == CHOOSE f \in (d - 3)..(d - 1) : Weekday(f) = 4

\* The data rows of the sheet dated `date_str`
RowsDated(sheet, date_str) ==
  {i \in DataRows(sheet) : sheet.rows[i].date # None /\ sheet.rows[i].date.s = date_str}

\* C23: a row the upsert pass created is dated a Monday-to-Friday day before
\* the run date; a run on a Saturday, Sunday or Monday targets the row of the
\* Friday before and adds no row when that row exists; and the table never
\* has two rows of one Friday.
C23_RowsDatedEarlierWeekday ==
  /\ (pc = "save" /\ ~cur.is_update) =>
       \E d \in (today - 3)..(today - 1) :
         /\ Weekday(d) \in 0..4
         /\ DateCell(ws, cur.row) = Str(Ymd(d))
  /\ (pc = "save" /\ Weekday(today) \in {0, 5, 6}) =>
       /\ DateCell(ws, cur.row) = Str(Ymd(FridayBefore(today)))
       /\ RowsDated(ws_pre, Ymd(FridayBefore(today))) # {} =>
            (cur.is_update /\ Len(ws.rows) = Len(ws_pre.rows))
  /\ table.exists =>
       \A d \in WeekDays :
         Weekday(d) \in {0, 5, 6} =>
           Cardinality(RowsDated(table.ws, Ymd(FridayBefore(d)))) <= 1

\* C23 witness: the third run, on Monday 2025-10-20, targets the Friday row
\* that a run of the weekend before it created, and adds no row.
C23_Witness ==
  /\ pc = "save"
  /\ runs = 2
  /\ today \in WeekDays /\ Weekday(today) = 0 /\ today > 13
  /\ cur.is_update
  /\ DateCell(ws, cur.row) = Str(Ymd(today - 3))
  /\ Len(ws.rows) = Len(ws_pre.rows)

\* C24 (as claimed): the orchestrator exits with status 0 only when the
\* reconciler of its run saved the table; when the reconciler aborted or
\* raised, it exits with a status that is not 0.
C24_SuccessOnlyIfSaved ==
  /\ (orch = "exited" /\ exit_status = 0) => mapping_outcome = "saved"
  /\ (orch = "exited" /\ mapping_outcome \in {"aborted", "raised"}) => exit_status # 0

\* The columns whose cell in the last data row of `before` is a non-zero
\* number and whose reading in the run's batch is present and invalid
CarriedCols(before) ==
  {c \in Cols : /\ Len(before.rows) >= 1
                /\ IsNonZeroNumber(before.rows[Len(before.rows)].cells[c])
                /\ HasReading(c)
                /\ ~validate_duration(Reading(c))}

\* C25 (as claimed): a run that appends a row, on a table whose last data row
\* held a valid value for an instrument whose reading is present and invalid,
\* writes that value in the appended row.
C25_FallbackCarriesForward ==
  (pc = "save" /\ ~cur.is_update) =>
    LET before == create_or_open_target_file(table_before)
    IN \A c \in CarriedCols(before) :
         Cell(ws, cur.row, c) = before.rows[Len(before.rows)].cells[c]

\* C25 (amended): the same, for the runs whose batch's as-of date is not the
\* date of the last data row, so that the historical pass leaves that row as
\* it was.
C25_FallbackCarriesForward_Amended ==
  (pc = "save" /\ ~cur.is_update) =>
    LET before == create_or_open_target_file(table_before)
        last == Len(before.rows)
    IN (last >= 1 => ~DateMatches(before.rows[last].date, as_of_date_str.s)) =>
         \A c \in CarriedCols(before) :
           Cell(ws, cur.row, c) = before.rows[last].cells[c]

\* C25 witness: the second of two runs on successive business dates appends a
\* row carrying the value that the row appended by the first run carried from
\* the row above it.
C25_Witness ==
  /\ pc = "save" /\ ~cur.is_update
  /\ LET before == create_or_open_target_file(table_before)
         last == Len(before.rows)
     IN /\ last >= 2
        /\ ~DateMatches(before.rows[last].date, as_of_date_str.s)
        /\ before.rows[last].date = Str(Ymd(get_last_business_date(today) - 1))
        /\ \E c \in CarriedCols(before) :
             /\ before.rows[last - 1].cells[c] = before.rows[last].cells[c]
             /\ Cell(ws, cur.row, c) = before.rows[last].cells[c]

====
